---- MODULE Spec2Model ----
(***************************************************************************)
(* Submission ranking and leaderboard of the coding-challenge backend:     *)
(* database.save_submission (conditional upsert into the submissions       *)
(* table) and database.get_leaderboard_data (per-user best entry), run by  *)
(* concurrent request handlers against one PostgreSQL database under the   *)
(* default READ COMMITTED isolation.                                       *)
(***************************************************************************)
EXTENDS Integers, Sequences, FiniteSets, TLC

VARIABLES
    store,      \* committed rows of table submissions
    pc,         \* position of each save_submission caller
    cand,       \* submission_entry of the call in progress
    pending,    \* uncommitted effect (and row lock) of the open transaction
    applied,    \* rows offered by the calls that returned success
    calls,      \* number of save_submission calls started
    out         \* what the step just taken handed back to its caller

vars == <<store, pc, cand, pending, applied, calls, out>>

----------------------------------------------------------------------------
\* Bounds of the model

MaxCalls == 2

Writers == {"w1", "w2"}
Ids == {"s1", "s2"}
Scores == {70, 90}
Times == {1, 2}

\* (user_id, problem_id) of the submissions made
Pairs == {<<"u1", "p1">>, <<"u1", "p2">>, <<"u2", "p1">>}

\* submission_entry dictionaries as the grader hands them over: a passing
\* one carries no error_details key, a failing one a list of diagnostics and
\* the lowest score
PassEntries ==
    {[submission_id |-> i, user_id |-> k[1], problem_id |-> k[2], score |-> s,
      replay_result |-> "pass", timestamp |-> t] :
        i \in Ids, k \in Pairs, s \in Scores, t \in Times}

FailEntries ==
    {[submission_id |-> i, user_id |-> k[1], problem_id |-> k[2], score |-> s,
      replay_result |-> "fail", timestamp |-> t, error_details |-> <<"e1">>] :
        i \in Ids, k \in Pairs, t \in Times,
        s \in {x \in Scores : \A y \in Scores : x <= y}}

Entries == PassEntries \cup FailEntries

NoEntry == [submission_id |-> "none"]
NoRow == [id |-> "none"]
NoPending == [kind |-> "none", old |-> NoRow, new |-> NoRow]

----------------------------------------------------------------------------
\* json.dumps of a list of strings, as the sequence of its tokens

RECURSIVE JsonItems(_)
JsonItems(s) ==
    IF s = <<>> THEN <<>>
    ELSE IF Len(s) = 1 THEN <<"\"" , s[1], "\"">>
    ELSE <<"\"", s[1], "\"", ", ">> \o JsonItems(Tail(s))

JsonDumps(s) == <<"[">> \o JsonItems(s) \o <<"]">>

\* submission_entry.get("error_details", [])
GetErrorDetails(e) ==
    IF "error_details" \in DOMAIN e THEN e.error_details ELSE <<>>

\* variant: the INSERT leaves the timestamp to the column default,
\* CURRENT_TIMESTAMP, the latest time there is
ValuesDefaultTimestamp(e) ==
    [id |-> e.submission_id, user_id |-> e.user_id, problem_id |-> e.problem_id,
     score |-> e.score, replay_result |-> e.replay_result,
     timestamp |-> CHOOSE t \in Times : \A u \in Times : t >= u,
     error_details |-> JsonDumps(GetErrorDetails(e))]

\* the VALUES tuple of the INSERT
Values(e) ==
    [id |-> e.submission_id, user_id |-> e.user_id, problem_id |-> e.problem_id,
     score |-> e.score, replay_result |-> e.replay_result,
     timestamp |-> e.timestamp,
     error_details |-> JsonDumps(GetErrorDetails(e))]

----------------------------------------------------------------------------
\* Table submissions and the INSERT ... ON CONFLICT statement

SamePair(r, v) == r.user_id = v.user_id /\ r.problem_id = v.problem_id

\* variant: the arbiter index is on user_id alone
ConflictsByUser(table, v) == {r \in table : r.user_id = v.user_id}

\* variant: no arbiter index, every row is inserted
ConflictsNone(table, v) == {}

\* rows that collide with v on the arbiter index UNIQUE (user_id, problem_id)
Conflicts(table, v) == {r \in table : SamePair(r, v)}

\* variant: the id column without its primary key
PrimaryKeyNone(table, v) == FALSE

\* id UUID PRIMARY KEY
PrimaryKeyTaken(table, v) == \E r \in table : r.id = v.id

\* variant: the WHERE clause without its tie-break on timestamp
DoUpdateWhereScoreOnly(excluded, r) == excluded.score > r.score

\* variant: the WHERE clause lets an equal score overwrite
DoUpdateWhereOrEqual(excluded, r) == excluded.score >= r.score

\* variant: the tie-break lets an equal timestamp overwrite
DoUpdateWhereTieOverwrites(excluded, r) ==
    \/ excluded.score > r.score
    \/ (excluded.score = r.score /\ excluded.timestamp <= r.timestamp)

\* variant: no WHERE clause, the last candidate always overwrites
DoUpdateWhereLastWins(excluded, r) == TRUE

\* WHERE EXCLUDED.score > submissions.score OR (EXCLUDED.score =
\* submissions.score AND EXCLUDED.timestamp < submissions.timestamp)
DoUpdateWhere(excluded, r) ==
    \/ excluded.score > r.score
    \/ (excluded.score = r.score /\ excluded.timestamp < r.timestamp)

\* variant: the SET list without error_details
DoUpdateSetNoDetails(excluded, r) ==
    [r EXCEPT !.score = excluded.score,
              !.replay_result = excluded.replay_result,
              !.timestamp = excluded.timestamp]

\* DO UPDATE SET score, replay_result, timestamp, error_details; id is kept
DoUpdateSet(excluded, r) ==
    [r EXCEPT !.score = excluded.score,
              !.replay_result = excluded.replay_result,
              !.timestamp = excluded.timestamp,
              !.error_details = excluded.error_details]

\* effect of the statement on the committed table it reads
Statement(table, v) ==
    LET c == Conflicts(table, v) IN
    IF c = {}
    THEN IF PrimaryKeyTaken(table, v)
         THEN [kind |-> "unique_violation", old |-> NoRow, new |-> NoRow]
         ELSE [kind |-> "insert", old |-> NoRow, new |-> v]
    ELSE LET r == CHOOSE x \in c : TRUE IN
         IF DoUpdateWhere(v, r)
         THEN [kind |-> "update", old |-> r, new |-> DoUpdateSet(v, r)]
         ELSE [kind |-> "lock", old |-> r, new |-> r]

\* the table after the transaction holding p commits
Committed(table, p) ==
    IF p.kind = "insert" THEN table \cup {p.new}
    ELSE IF p.kind = "update" THEN (table \ {p.old}) \cup {p.new}
    ELSE table

\* the statement of w waits for the open transaction of another caller that
\* holds the row of the same pair, or has inserted a row with the same id
Blocked(w, v) ==
    \E o \in Writers \ {w} :
        /\ pending[o].kind \in {"insert", "update", "lock"}
        /\ \/ SamePair(pending[o].new, v)
           \/ /\ pending[o].kind = "insert"
              /\ Conflicts(store, v) = {}
              /\ pending[o].new.id = v.id

NoResult == [kind |-> "none"]

\* an except branch that would report the failure as a success
FailureSwallowed(msg) == [kind |-> "return", success |-> TRUE]

Success == [kind |-> "return", success |-> TRUE]
Failure(msg) == [kind |-> "return", success |-> FALSE, error |-> msg]
Raised(msg) == [kind |-> "raise", error |-> msg]

----------------------------------------------------------------------------
\* save_submission

NoOut == [op |-> "none"]

\* a save_submission call ends: its return value, what it did to the table,
\* the row of the statement it ran (NoRow when no statement ran or when no
\* result dictionary reaches the caller), whether an earlier successful call
\* had offered the same row, and whether it had opened a connection (it has
\* unless get_db_connection raised)
Saved(res, eff, v) ==
    [op |-> "save_submission", result |-> res, effect |-> eff, row |-> v,
     again |-> v \in applied, connected |-> res # Raised("connect")]

\* get_db_connection() raises: it is called outside the try block, so the
\* exception leaves save_submission
ConnectFail(w) ==
    /\ pc[w] = "idle"
    /\ calls < MaxCalls
    /\ calls' = calls + 1
    /\ out' = Saved(Raised("connect"), "failed", NoRow)
    /\ UNCHANGED <<store, pc, cand, pending, applied>>

\* the keys save_submission reads with submission_entry[...]
RequiredKeys ==
    {"submission_id", "user_id", "problem_id", "score", "replay_result",
     "timestamp"}

\* entries that lack one of the identity fields
MalformedEntries ==
    {[k \in DOMAIN e \ {m} |-> e[k]] :
        m \in {"submission_id", "user_id", "problem_id", "score", "timestamp"},
        e \in {x \in PassEntries :
                  x.submission_id = "s1" /\ x.user_id = "u1"
                      /\ x.problem_id = "p1"}}

\* the connection is open and building the parameter tuple raises KeyError
\* inside the try block, before cur.execute is called: except branch,
\* conn.rollback(), return success False
MalformedFail(w, e) ==
    /\ pc[w] = "idle"
    /\ calls < MaxCalls
    /\ ~(RequiredKeys \subseteq DOMAIN e)
    /\ calls' = calls + 1
    /\ out' = Saved(Failure("key_error"), "malformed", NoRow)
    /\ UNCHANGED <<store, pc, cand, pending, applied>>

\* connection and cursor opened, cur.execute(INSERT ... ON CONFLICT ...)
\* done; the transaction stays open and holds the row
Execute(w, e) ==
    /\ pc[w] = "idle"
    /\ calls < MaxCalls
    /\ ~Blocked(w, Values(e))
    /\ Statement(store, Values(e)).kind # "unique_violation"
    /\ calls' = calls + 1
    /\ cand' = [cand EXCEPT ![w] = e]
    /\ pending' = [pending EXCEPT ![w] = Statement(store, Values(e))]
    /\ pc' = [pc EXCEPT ![w] = "executed"]
    /\ out' = NoOut
    /\ UNCHANGED <<store, applied>>

\* cur.execute raises a primary-key violation (the pair is new, the id is
\* not): except branch, conn.rollback(), return success False
UniqueViolation(w, e) ==
    /\ pc[w] = "idle"
    /\ calls < MaxCalls
    /\ ~Blocked(w, Values(e))
    /\ Statement(store, Values(e)).kind = "unique_violation"
    /\ calls' = calls + 1
    /\ out' = Saved(Failure("unique_violation"), "failed", Values(e))
    /\ UNCHANGED <<store, pc, cand, pending, applied>>

\* cur.execute raises because the database fails: except branch,
\* conn.rollback(), return success False
ExecuteFail(w) ==
    /\ pc[w] = "idle"
    /\ calls < MaxCalls
    /\ calls' = calls + 1
    /\ out' = Saved(Failure("storage"), "failed", NoRow)
    /\ UNCHANGED <<store, pc, cand, pending, applied>>

EffectOf(p) ==
    IF p.kind = "insert" THEN "inserted"
    ELSE IF p.kind = "update" THEN "updated" ELSE "rejected"

\* return {"success": True}, whatever the statement did
CommitReturn(p) == Success

\* conn.commit(); return {"success": True}
Commit(w) ==
    /\ pc[w] = "executed"
    /\ store' = Committed(store, pending[w])
    /\ pending' = [pending EXCEPT ![w] = NoPending]
    /\ pc' = [pc EXCEPT ![w] = "idle"]
    /\ cand' = [cand EXCEPT ![w] = NoEntry]
    /\ out' = Saved(CommitReturn(pending[w]), EffectOf(pending[w]), Values(cand[w]))
    /\ applied' = applied \cup {Values(cand[w])}
    /\ UNCHANGED calls

\* conn.commit() raises: except branch, conn.rollback(), return success False
CommitFail(w) ==
    /\ pc[w] = "executed"
    /\ pending' = [pending EXCEPT ![w] = NoPending]
    /\ pc' = [pc EXCEPT ![w] = "idle"]
    /\ cand' = [cand EXCEPT ![w] = NoEntry]
    /\ out' = Saved(Failure("storage"), "failed", Values(cand[w]))
    /\ UNCHANGED <<store, applied, calls>>

\* conn.commit() raises because the connection is lost, and conn.rollback()
\* in the except branch raises in turn: the exception leaves save_submission
RollbackFail(w) ==
    /\ pc[w] = "executed"
    /\ pending' = [pending EXCEPT ![w] = NoPending]
    /\ pc' = [pc EXCEPT ![w] = "idle"]
    /\ cand' = [cand EXCEPT ![w] = NoEntry]
    /\ out' = Saved(Raised("rollback"), "failed", NoRow)
    /\ UNCHANGED <<store, applied, calls>>

\* the caller goes away with the transaction open: the server aborts it
Abandon(w) ==
    /\ pc[w] = "executed"
    /\ pending' = [pending EXCEPT ![w] = NoPending]
    /\ pc' = [pc EXCEPT ![w] = "idle"]
    /\ cand' = [cand EXCEPT ![w] = NoEntry]
    /\ out' = Saved(NoResult, "abandoned", NoRow)
    /\ UNCHANGED <<store, applied, calls>>

----------------------------------------------------------------------------
\* get_leaderboard_data

\* variant: ORDER BY score ASC, timestamp ASC
OrderedBeforeScoreAsc(a, b) ==
    \/ a.score < b.score
    \/ (a.score = b.score /\ a.timestamp < b.timestamp)

\* ORDER BY score DESC, timestamp ASC: a sorts strictly before b
OrderedBefore(a, b) ==
    \/ a.score > b.score
    \/ (a.score = b.score /\ a.timestamp < b.timestamp)

\* the sets of rows the inner query can number 1: one row of each
\* (user_id, problem_id) partition, first under the partition's ORDER BY
RowNumberOne(table) ==
    {R \in SUBSET table :
        /\ \A r \in table : \E x \in R : SamePair(x, r)
        /\ \A x \in R : \A y \in table :
               SamePair(x, y) => /\ ~OrderedBefore(y, x)
                                 /\ (y \in R => y = x)}

\* SELECT id, user_id, problem_id, score, replay_result, timestamp
Selected(r) ==
    [id |-> r.id, user_id |-> r.user_id, problem_id |-> r.problem_id,
     score |-> r.score, replay_result |-> r.replay_result,
     timestamp |-> r.timestamp]

\* variant: the outer query without ORDER BY
OrderingsAny(R) ==
    {f \in [1..Cardinality(R) -> R] :
        \A i, j \in 1..Cardinality(R) : i # j => f[i] # f[j]}

\* the orders in which the outer ORDER BY can return the rows of R: rows
\* that tie on (score, timestamp) come in an order the query does not fix
Orderings(R) ==
    {f \in [1..Cardinality(R) -> R] :
        /\ \A i, j \in 1..Cardinality(R) : i # j => f[i] # f[j]
        /\ \A i, j \in 1..Cardinality(R) : i < j => ~OrderedBefore(f[j], f[i])}

\* cur.fetchall(): what the query can return on the table
FetchAll(table) ==
    UNION {{[i \in 1..Cardinality(R) |-> Selected(f[i])] : f \in Orderings(R)} :
              R \in RowNumberOne(table)}

\* the loop over submissions_by_problem: keep the first entry of each user
RECURSIVE Aggregate(_, _, _)
Aggregate(rows, seen, leaderboard) ==
    IF rows = <<>> THEN leaderboard
    ELSE IF Head(rows).user_id \notin seen
         THEN Aggregate(Tail(rows), seen \cup {Head(rows).user_id},
                        Append(leaderboard, Head(rows)))
         ELSE Aggregate(Tail(rows), seen, leaderboard)

\* variant: every fetched entry is kept
LeaderboardAll(rows) == rows

Leaderboard(rows) == Aggregate(rows, {}, <<>>)

\* variant: a read that also deletes the rows it leaves off the leaderboard
GetLeaderboardPruning ==
    /\ \E rows \in FetchAll(store) :
           /\ out' = [op |-> "get_leaderboard_data", effect |-> "read",
                      result |-> [kind |-> "return", success |-> TRUE,
                                  leaderboard |-> Leaderboard(rows)]]
           /\ store' = {r \in store :
                           \E i \in DOMAIN Leaderboard(rows) :
                               Leaderboard(rows)[i].id = r.id}
    /\ UNCHANGED <<pc, cand, pending, applied, calls>>

\* the query succeeds: return {"success": True, "leaderboard": leaderboard}
GetLeaderboard ==
    /\ \E rows \in FetchAll(store) :
           out' = [op |-> "get_leaderboard_data", effect |-> "read",
                   result |-> [kind |-> "return", success |-> TRUE,
                               leaderboard |-> Leaderboard(rows)]]
    /\ UNCHANGED <<store, pc, cand, pending, applied, calls>>

\* the query raises: return {"success": False, "error": str(e)}
GetLeaderboardFail ==
    /\ out' = [op |-> "get_leaderboard_data", effect |-> "failed",
               result |-> Failure("storage")]
    /\ UNCHANGED <<store, pc, cand, pending, applied, calls>>

\* get_db_connection() raises: it is called outside the try block, so the
\* exception leaves get_leaderboard_data
GetLeaderboardConnectFail ==
    /\ out' = [op |-> "get_leaderboard_data", effect |-> "failed",
               result |-> Raised("connect")]
    /\ UNCHANGED <<store, pc, cand, pending, applied, calls>>

----------------------------------------------------------------------------
\* init_db on an empty database, no call made yet
Init ==
    /\ store = {}
    /\ pc = [w \in Writers |-> "idle"]
    /\ cand = [w \in Writers |-> NoEntry]
    /\ pending = [w \in Writers |-> NoPending]
    /\ applied = {}
    /\ calls = 0
    /\ out = NoOut

Next ==
    \/ \E w \in Writers : ConnectFail(w)
    \/ \E w \in Writers : \E e \in MalformedEntries : MalformedFail(w, e)
    \/ \E w \in Writers : \E e \in Entries : Execute(w, e)
    \/ \E w \in Writers : \E e \in Entries : UniqueViolation(w, e)
    \/ \E w \in Writers : ExecuteFail(w)
    \/ \E w \in Writers : Commit(w)
    \/ \E w \in Writers : CommitFail(w)
    \/ \E w \in Writers : RollbackFail(w)
    \/ \E w \in Writers : Abandon(w)
    \/ GetLeaderboard
    \/ GetLeaderboardFail
    \/ GetLeaderboardConnectFail

Spec == Init /\ [][Next]_vars

----------------------------------------------------------------------------
\* The leaderboard read on a table this process did not fill. init_db runs
\* CREATE TABLE IF NOT EXISTS, which keeps a submissions table that is already
\* there, whatever its constraints: such a table can hold two rows of one
\* (user_id, problem_id). The ids are still distinct.
BoardRows == {Values(e) : e \in Entries}

BoardTables ==
    {t \in {{a, b} : a \in BoardRows, b \in BoardRows} :
        \A a \in t : \A b \in t : a.id = b.id => a = b}

InitBoard ==
    /\ store \in BoardTables
    /\ pc = [w \in Writers |-> "idle"]
    /\ cand = [w \in Writers |-> NoEntry]
    /\ pending = [w \in Writers |-> NoPending]
    /\ applied = {}
    /\ calls = 0
    /\ out = NoOut

NextBoard ==
    \/ GetLeaderboard
    \/ GetLeaderboardFail
    \/ GetLeaderboardConnectFail

SpecBoard == InitBoard /\ [][NextBoard]_vars

----------------------------------------------------------------------------
\* save_submission calls made one after another by a single caller: each
\* call ends before the next begins
NextSerial ==
    \/ ConnectFail("w1")
    \/ \E e \in MalformedEntries : MalformedFail("w1", e)
    \/ \E e \in Entries : Execute("w1", e)
    \/ \E e \in Entries : UniqueViolation("w1", e)
    \/ ExecuteFail("w1")
    \/ Commit("w1")
    \/ CommitFail("w1")
    \/ RollbackFail("w1")
    \/ Abandon("w1")

SpecSerial == Init /\ [][NextSerial]_vars

----------------------------------------------------------------------------
\* Properties

\* the I2 ordering: a is strictly better than b
Better(a, b) ==
    \/ a.score > b.score
    \/ (a.score = b.score /\ a.timestamp < b.timestamp)

\* the four fields a winning candidate hands to the stored record
SamePayload(a, b) ==
    /\ a.score = b.score
    /\ a.replay_result = b.replay_result
    /\ a.timestamp = b.timestamp
    /\ a.error_details = b.error_details

Quiescent == \A w \in Writers : pc[w] = "idle"

IsSaved == out.op = "save_submission"
IsBoard ==
    /\ out.op = "get_leaderboard_data"
    /\ out.result.kind = "return"
    /\ out.result.success

\* C1: once every save_submission call has ended, the record stored for a
\* pair carries the (score, timestamp) that is maximal under I2 among the
\* candidates of the successful calls for that pair, in whatever order the
\* calls were executed and committed.
C1_FinalIsMaximal ==
    Quiescent =>
        \A v \in applied :
            \E r \in store :
                /\ SamePair(r, v)
                /\ ~Better(v, r)
                /\ \E x \in applied : SamePair(x, r) /\ SamePayload(x, r)

\* two candidates of one pair tie on score; the later one was stored first
\* (the row keeps its id) and the earlier one has replaced it
C1_Witness ==
    /\ Quiescent
    /\ \E v \in applied : \E x \in applied : \E r \in store :
           /\ SamePair(v, x) /\ SamePair(v, r)
           /\ v.score = x.score /\ v.timestamp < x.timestamp
           /\ x.id = r.id /\ v.id # r.id
           /\ SamePayload(v, r)

\* C2: a call whose candidate is not strictly better than the record stored
\* for its pair leaves that record as it is, in every field, and returns
\* success; a stored record is replaced only by the commit of a candidate
\* of its pair that has a higher score, or the same score and an earlier
\* timestamp.
C2_RejectKeepsRecord ==
    [][/\ \A w \in Writers :
              (pc[w] = "executed" /\ pc'[w] = "idle") =>
                  \A r \in Conflicts(store, Values(cand[w])) :
                      ~Better(Values(cand[w]), r) =>
                          /\ r \in store'
                          /\ out'.effect \in {"rejected", "failed", "abandoned"}
                          /\ (out'.effect = "rejected" => out'.result = Success)
       /\ \A r \in store :
              r \notin store' =>
                  \E w \in Writers :
                      /\ pc[w] = "executed" /\ pc'[w] = "idle"
                      /\ SamePair(Values(cand[w]), r)
                      /\ Better(Values(cand[w]), r)]_vars

\* a call with the stored score and a later timestamp has returned success
\* and the record of its pair is still the stored one
C2_Witness ==
    /\ IsSaved /\ out.effect = "rejected" /\ out.result = Success
    /\ \E r \in store :
           /\ SamePair(r, out.row)
           /\ out.row.score = r.score /\ out.row.timestamp > r.timestamp
           /\ ~SamePayload(out.row, r)

\* C3: the table never holds two records of one (user_id, problem_id).
C3_OnePerPair ==
    \A r1 \in store : \A r2 \in store : SamePair(r1, r2) => r1 = r2

\* a second submission of a pair, under another id, has been committed
C3_Witness ==
    /\ IsSaved /\ out.effect \in {"updated", "rejected"}
    /\ \E r \in store : SamePair(r, out.row) /\ r.id # out.row.id

\* C4: a candidate applied before is rejected when applied again, the table
\* stays as it is, and the value returned differs from the value an applied
\* call returns.
C4_SecondIsRejected ==
    (IsSaved /\ out.again /\ out.effect \notin {"failed", "abandoned"}) =>
        /\ out.effect = "rejected"
        /\ out.row \in applied
        /\ \A k \in {"insert", "update"} :
               out.result # CommitReturn([NoPending EXCEPT !.kind = k])

\* C5: every entry of a successful leaderboard belongs to a user with
\* records and carries that user's highest score and the earliest timestamp
\* among the user's records with that score; every user with records has an
\* entry; an empty table gives an empty leaderboard.
C5_BestPerUser ==
    IsBoard =>
        LET L == out.result.leaderboard IN
        /\ \A i \in DOMAIN L :
               /\ \E r \in store :
                      /\ r.user_id = L[i].user_id
                      /\ r.score = L[i].score /\ r.timestamp = L[i].timestamp
               /\ \A r \in store :
                      r.user_id = L[i].user_id => ~Better(r, L[i])
        /\ \A r \in store : \E i \in DOMAIN L : L[i].user_id = r.user_id
        /\ (store = {} => L = <<>>)

\* a user has records of two problems with different scores and the
\* leaderboard shows the higher one, which is not their sum
C5_Witness ==
    /\ IsBoard
    /\ \E r1 \in store : \E r2 \in store :
           /\ r1.user_id = r2.user_id /\ r1.problem_id # r2.problem_id
           /\ r1.score > r2.score /\ r2.score > 0
           /\ \E i \in DOMAIN out.result.leaderboard :
                  /\ out.result.leaderboard[i].user_id = r1.user_id
                  /\ out.result.leaderboard[i].score = r1.score
                  /\ out.result.leaderboard[i].score # r1.score + r2.score

\* C6: a leaderboard never holds two entries of one user.
C6_OneEntryPerUser ==
    IsBoard =>
        \A i \in DOMAIN out.result.leaderboard :
            \A j \in DOMAIN out.result.leaderboard :
                out.result.leaderboard[i].user_id
                    = out.result.leaderboard[j].user_id => i = j

\* a leaderboard computed while a user has records of two problems
C6_Witness ==
    /\ IsBoard
    /\ \E r1 \in store : \E r2 \in store :
           r1.user_id = r2.user_id /\ r1.problem_id # r2.problem_id
    /\ Len(out.result.leaderboard) = 1

\* C7: a leaderboard is ordered by score descending, then timestamp
\* ascending.
C7_Ordered ==
    IsBoard =>
        \A i \in DOMAIN out.result.leaderboard :
            \A j \in DOMAIN out.result.leaderboard :
                i < j =>
                    \/ out.result.leaderboard[i].score
                           > out.result.leaderboard[j].score
                    \/ /\ out.result.leaderboard[i].score
                              = out.result.leaderboard[j].score
                       /\ out.result.leaderboard[i].timestamp
                              <= out.result.leaderboard[j].timestamp

\* a leaderboard of two users that tie on score and differ in timestamp
C7_Witness ==
    /\ IsBoard
    /\ Len(out.result.leaderboard) = 2
    /\ out.result.leaderboard[1].score = out.result.leaderboard[2].score
    /\ out.result.leaderboard[1].timestamp < out.result.leaderboard[2].timestamp

\* C8: two successful leaderboard calls on the same table return the same
\* sequence.
C8_Deterministic ==
    [][(IsBoard /\ out'.op = "get_leaderboard_data"
            /\ out'.result.kind = "return" /\ out'.result.success)
           => out' = out]_vars

\* C9: every stored record is, id included, the row of one successful
\* submission: its id is the id of the submission its fields come from.
C9_IdOfProducer ==
    \A r \in store : \E v \in applied : v = r

\* C10: the four fields of every stored record come from the candidate of
\* one successful call, and the table changes in no step but the commit of
\* a call that returns success: a call that fails or is abandoned leaves it
\* as it was.
C10_AllOrNothing ==
    [][/\ \A r \in store' :
              \E v \in applied' : SamePair(v, r) /\ SamePayload(v, r)
       /\ (store' # store =>
               /\ out'.op = "save_submission"
               /\ out'.result = Success
               /\ out'.effect \in {"inserted", "updated"})
       /\ (out'.op = "save_submission"
               /\ out'.effect \in {"failed", "abandoned"} => store' = store)]_vars

\* a call whose candidate would have replaced the stored record failed at
\* commit, and the record is still the old one
C10_Witness ==
    /\ IsSaved /\ out.effect \in {"failed", "abandoned"}
    /\ out.row # NoRow
    /\ \E r \in store : SamePair(r, out.row) /\ Better(out.row, r)

----------------------------------------------------------------------------
\* a call of either function has just ended in a storage failure
IsFailed == out.op # "none" /\ out.effect = "failed"

\* C11 as stated: every failure raised while save_submission or
\* get_leaderboard_data talks to the store reaches the caller as an error
\* outcome, a returned dictionary with success False and an error.
C11_ErrorOutcome ==
    IsFailed => (out.result.kind = "return" /\ ~out.result.success)

\* C11 amended: every failure raised while save_submission or
\* get_leaderboard_data talks to the store reaches the caller, as a
\* returned dictionary with success False and an error when it is raised
\* inside the try block, and as an exception leaving the function when
\* get_db_connection or conn.rollback raises; no failed call is reported as
\* a success; the failing step changes no stored record and runs no
\* statement again.
C11_FailureSurfaced ==
    [][(out'.op # "none" /\ out'.effect = "failed") =>
          /\ out'.result.kind \in {"return", "raise"}
          /\ (out'.result.kind = "return" =>
                  /\ ~out'.result.success
                  /\ out'.result.error \in {"storage", "unique_violation"})
          /\ (out'.result.kind = "raise" =>
                  out'.result.error \in {"connect", "rollback"})
          /\ store' = store
          /\ \A w \in Writers : pc'[w] = "executed" => pc[w] = "executed"
          /\ pending' \in {pending} \cup
                 {[pending EXCEPT ![w] = NoPending] : w \in Writers}]_vars

\* a commit failed and was reported with success False while the table
\* holds a record
C11_Witness ==
    /\ IsFailed /\ IsSaved
    /\ out.result = Failure("storage")
    /\ out.row # NoRow
    /\ store # {}

----------------------------------------------------------------------------
\* the table holds two rows of one (user_id, problem_id)
ViolatesI1(table) ==
    \E a \in table : \E b \in table : a # b /\ SamePair(a, b)

\* C12: a get_leaderboard_data call that reads a table holding two or more
\* rows of one (user_id, problem_id) ends in a failure, never in a
\* leaderboard computed from those rows.
C12_DetectsViolation ==
    (out.op = "get_leaderboard_data" /\ ViolatesI1(store)) =>
        out.effect = "failed"

----------------------------------------------------------------------------
\* C13: a save_submission call whose candidate lacks an identity field ends
\* with a caller error before any interaction with the store: no connection
\* has been opened and no statement has been run.
C13_RejectedBeforeStore ==
    (IsSaved /\ out.effect = "malformed") =>
        /\ ~out.connected
        /\ out.row = NoRow

----------------------------------------------------------------------------
\* C14: a get_leaderboard_data call, successful or failed, changes no
\* stored record and no open transaction, whatever save_submission calls
\* are under way; the table changes only in a step of save_submission.
C14_ReadOnly ==
    [][/\ out'.op = "get_leaderboard_data" =>
              /\ store' = store
              /\ pending' = pending
              /\ applied' = applied
       /\ store' # store => out'.op = "save_submission"]_vars

\* a leaderboard has been returned from a table that holds a record, while
\* a save_submission call has run its statement and not yet committed
C14_Witness ==
    /\ IsBoard
    /\ store # {}
    /\ \E w \in Writers : pc[w] = "executed" /\ pending[w].kind = "update"

----------------------------------------------------------------------------
\* C15: in every step, each pair that has a stored record still has one
\* afterwards, and that record is either the same record or one whose
\* (score, timestamp) is strictly better under I2 (a higher score, or the
\* same score and an earlier timestamp).
C15_OnlyImproves ==
    [][\A r \in store :
          \E r2 \in store' :
              /\ SamePair(r, r2)
              /\ (r2 = r \/ Better(r2, r))]_vars

\* a call has just replaced the record of its pair, which an earlier call
\* had created under another submission_id
C15_Witness ==
    /\ IsSaved /\ out.effect = "updated"
    /\ \E r \in store :
           /\ SamePair(r, out.row) /\ SamePayload(r, out.row)
           /\ r.id # out.row.id

----------------------------------------------------------------------------
\* C16: when a save_submission call commits, and the table holds no record
\* of the candidate's pair and no record with the candidate's
\* submission_id, then whatever the candidate's score and timestamp the
\* call returns success and afterwards the one record of the pair has the
\* candidate's submission_id, score, outcome and timestamp, and its
\* error_details as JSON text.
C16_InsertedAsIs ==
    [][\A w \in Writers :
          (/\ pc[w] = "executed" /\ pc'[w] = "idle"
           /\ out'.effect \notin {"failed", "abandoned"}
           /\ Conflicts(store, Values(cand[w])) = {}
           /\ ~PrimaryKeyTaken(store, Values(cand[w]))) =>
              /\ out'.result = Success
              /\ out'.effect = "inserted"
              /\ \E r \in store' :
                     /\ Conflicts(store', Values(cand[w])) = {r}
                     /\ r.id = cand[w].submission_id
                     /\ r.user_id = cand[w].user_id
                     /\ r.problem_id = cand[w].problem_id
                     /\ r.score = cand[w].score
                     /\ r.replay_result = cand[w].replay_result
                     /\ r.timestamp = cand[w].timestamp
                     /\ r.error_details = JsonDumps(GetErrorDetails(cand[w]))
                     /\ store' = store \cup {r}]_vars

\* a candidate with a lower score and a later timestamp than a record
\* already stored for another pair has just been inserted
C16_Witness ==
    /\ IsSaved /\ out.effect = "inserted"
    /\ out.row \in store
    /\ \E r \in store : ~SamePair(r, out.row) /\ Better(r, out.row)

----------------------------------------------------------------------------
\* the table after a whole save_submission call with the VALUES tuple v, run
\* alone on the table: the statement, then the commit, or the rollback after
\* a unique violation
Apply(table, v) == Committed(table, Statement(table, v))

\* the step ends a save_submission call that ran its statement and was not
\* stopped by a storage failure: it was applied, rejected, or refused for
\* its submission_id
RanStatement ==
    /\ out'.op = "save_submission"
    /\ out'.row # NoRow
    /\ \/ out'.effect \in {"inserted", "updated", "rejected"}
       \/ out'.result = Failure("unique_violation")

\* every step leaves the records of the pairs other than the one of the
\* call it ends as they were
OtherPairsKept ==
    /\ (out'.op = "save_submission" /\ out'.row # NoRow) =>
           /\ \A r \in store : ~SamePair(r, out'.row) => r \in store'
           /\ \A r \in store' : ~SamePair(r, out'.row) => r \in store
    /\ (out'.op # "save_submission" \/ out'.row = NoRow) => store' = store

\* C17 as stated: a save_submission call leaves the records of every other
\* pair unchanged, whether it is applied, rejected or fails, and for every
\* candidate of another pair the table is the same whether that candidate's
\* call runs after this call or before it.
C17_OtherPairsCommute ==
    [][/\ OtherPairsKept
       /\ RanStatement =>
              /\ store' = Apply(store, out'.row)
              /\ \A e \in Entries :
                     ~SamePair(Values(e), out'.row) =>
                         Apply(store', Values(e))
                             = Apply(Apply(store, Values(e)), out'.row)]_vars

\* C17 amended: a save_submission call leaves the records of every other
\* pair unchanged, whether it is applied, rejected or fails, and for every
\* candidate of another pair that has another submission_id the table is
\* the same whether that candidate's call runs after this call or before it.
C17_DistinctIdsCommute ==
    [][/\ OtherPairsKept
       /\ RanStatement =>
              /\ store' = Apply(store, out'.row)
              /\ \A e \in Entries :
                     (~SamePair(Values(e), out'.row)
                          /\ e.submission_id # out'.row.id) =>
                         Apply(store', Values(e))
                             = Apply(Apply(store, Values(e)), out'.row)]_vars

\* a call has just inserted the record of its pair into a table that holds
\* the record of another pair, stored under another submission_id
C17_Witness ==
    /\ IsSaved /\ out.effect = "inserted"
    /\ \E r \in store :
           /\ ~SamePair(r, out.row)
           /\ r.id # out.row.id
           /\ r \in applied

----------------------------------------------------------------------------
\* C18: a save_submission call that ran its statement while the table held
\* no record of the candidate's pair and held a record, of another pair,
\* with the candidate's submission_id ends with success False and leaves
\* the table as it was: no record of the candidate's pair, the other
\* record untouched.
C18_DuplicateIdFails ==
    [][(/\ out'.op = "save_submission"
        /\ out'.row # NoRow
        /\ \A r \in store : ~SamePair(r, out'.row)
        /\ \E r \in store : r.id = out'.row.id) =>
           /\ out'.result.kind = "return"
           /\ ~out'.result.success
           /\ out'.effect = "failed"
           /\ store' = store
           /\ pending' = pending]_vars

\* a call has just been refused for its submission_id: the id is the one
\* of the record of another pair, and the candidate's pair has no record
C18_Witness ==
    /\ IsSaved
    /\ out.result = Failure("unique_violation")
    /\ \E r \in store : r.id = out.row.id /\ ~SamePair(r, out.row)
    /\ \A r \in store : ~SamePair(r, out.row)

----------------------------------------------------------------------------
\* v has the score and the timestamp of r, which is of the same pair
Ties(v, r) ==
    SamePair(v, r) /\ v.score = r.score /\ v.timestamp = r.timestamp

\* C19: a save_submission call whose candidate has the score and the
\* timestamp of the record stored for its pair leaves that record as it
\* is, outcome and error_details included, so the candidate is discarded;
\* and when a call inserts a record, a candidate that ties with it and
\* differs in outcome or error_details would have been stored instead had
\* its call come first: which of the two is stored depends on the order.
C19_FirstOfTiesStays ==
    [][/\ (out'.op = "save_submission" /\ out'.row # NoRow) =>
              \A r \in store :
                  Ties(out'.row, r) =>
                      /\ r \in store'
                      /\ out'.effect \in {"rejected", "failed"}
                      /\ (out'.effect = "rejected" => out'.result = Success)
       /\ (out'.op = "save_submission" /\ out'.effect = "inserted") =>
              \A e \in Entries :
                  (/\ Ties(Values(e), out'.row)
                   /\ ~SamePayload(Values(e), out'.row)
                   /\ ~PrimaryKeyTaken(store, Values(e))) =>
                      /\ Apply(store', Values(e)) = store'
                      /\ Apply(Apply(store, Values(e)), out'.row)
                             = store \cup {Values(e)}
                      /\ store \cup {Values(e)} # store']_vars

\* a candidate that ties with the stored record of its pair and differs
\* from it in outcome has just been discarded
C19_Witness ==
    /\ IsSaved /\ out.effect = "rejected"
    /\ \E r \in store :
           /\ Ties(out.row, r)
           /\ out.row.replay_result # r.replay_result
           /\ out.row.error_details # r.error_details

====
